---- MODULE Spec2Model ----
(***************************************************************************)
(* Model of batch_fix_weaviate.py: the scan / dry-run / fix / fix-one /    *)
(* cleanup commands acting on a Weaviate schema service and the Dify       *)
(* dataset registry.                                                       *)
(*                                                                         *)
(* Strings the code inspects character by character (collection names,     *)
(* dataset ids, the operator's answer) are sequences of one-character      *)
(* strings.  A schema document is a record whose DOMAIN is the set of its   *)
(* top-level JSON keys.                                                    *)
(***************************************************************************)
EXTENDS Integers, Sequences, FiniteSets, TLC

(* ------------------------------ bounds -------------------------------- *)

\* Largest number of collections the schema listing holds initially.
MaxCollections == 2

(* ----------------------------- strings -------------------------------- *)

\* "Vector_index_"
Prefix == <<"V","e","c","t","o","r","_","i","n","d","e","x","_">>

\* "_Node"
Suffix == <<"_","N","o","d","e">>

\* "unknown"
Unknown == <<"u","n","k","n","o","w","n">>

\* "yes"
Yes == <<"y","e","s">>

\* str.startswith
StartsWith(s, p) == Len(s) >= Len(p) /\ SubSeq(s, 1, Len(p)) = p

\* str.endswith
EndsWith(s, p) == Len(s) >= Len(p) /\ SubSeq(s, Len(s) - Len(p) + 1, Len(s)) = p

\* str.replace(old, ""): every non-overlapping occurrence, left to right.
RECURSIVE Remove(_, _)
Remove(s, old) ==
    IF Len(s) < Len(old) THEN s
    ELSE IF SubSeq(s, 1, Len(old)) = old
         THEN Remove(SubSeq(s, Len(old) + 1, Len(s)), old)
         ELSE <<s[1]>> \o Remove(Tail(s), old)

\* str.split(sep) for a one-character separator: always at least one part,
\* empty parts are kept.
RECURSIVE Split(_, _)
Split(s, sep) ==
    IF \A k \in 1..Len(s) : s[k] /= sep THEN <<s>>
    ELSE LET k == CHOOSE j \in 1..Len(s) :
                     s[j] = sep /\ \A m \in 1..(j - 1) : s[m] /= sep
         IN  <<SubSeq(s, 1, k - 1)>> \o Split(SubSeq(s, k + 1, Len(s)), sep)

\* sep.join(parts)
RECURSIVE Join(_, _)
Join(parts, sep) ==
    IF Len(parts) = 0 THEN <<>>
    ELSE IF Len(parts) = 1 THEN parts[1]
    ELSE parts[1] \o <<sep>> \o Join(Tail(parts), sep)

\* the ASCII letters, upper case then lower case
UpperCase == <<"A","B","C","D","E","F","G","H","I","J","K","L","M",
               "N","O","P","Q","R","S","T","U","V","W","X","Y","Z">>

LowerCase == <<"a","b","c","d","e","f","g","h","i","j","k","l","m",
               "n","o","p","q","r","s","t","u","v","w","x","y","z">>

\* str.lower on one character
LowerChar(c) ==
    IF \E k \in 1..26 : UpperCase[k] = c
    THEN LowerCase[CHOOSE k \in 1..26 : UpperCase[k] = c]
    ELSE c

\* str.lower
Lower(s) == [k \in 1..Len(s) |-> LowerChar(s[k])]

(* ------------------------ pure functions of the tool ------------------- *)

\* a variant of is_old_format that looks at the old key only
is_old_format_old_key_only(collection) == "vectorIndexConfig" \in DOMAIN collection

\* is_old_format
is_old_format(collection) ==
    "vectorConfig" \notin DOMAIN collection /\ "vectorIndexConfig" \in DOMAIN collection

\* collection.get("class", "")
ClassOf(collection) ==
    IF "class" \in DOMAIN collection THEN collection.class ELSE <<>>

\* is_dify_collection
is_dify_collection(collection) ==
    StartsWith(ClassOf(collection), Prefix) /\ EndsWith(ClassOf(collection), Suffix)

\* class_name.replace("Vector_index_", "").replace("_Node", "").split("_")
KeyParts(class_name) == Split(Remove(Remove(class_name, Prefix), Suffix), "_")

\* extract_dataset_id
extract_dataset_id(class_name) ==
    IF Len(KeyParts(class_name)) >= 5
    THEN Join(SubSeq(KeyParts(class_name), 1, 5), "-")
    ELSE Unknown

\* get_collection_info (created_at, which is only printed, is left out)
get_collection_info(collection) ==
    [name               |-> ClassOf(collection),
     dataset_id         |-> extract_dataset_id(ClassOf(collection)),
     is_old_format      |-> is_old_format(collection),
     is_dify_collection |-> is_dify_collection(collection)]

\* [g(x) for x in seq]
Map(seq, G(_)) == [k \in 1..Len(seq) |-> G(seq[k])]

\* the set of the elements of a sequence
Range(seq) == {seq[k] : k \in 1..Len(seq)}

(* ------------------------- the model's universe ------------------------ *)

\* "Vector_index_a_b_c_d_e_Node": five id segments
NameA == Prefix \o <<"a","_","b","_","c","_","d","_","e">> \o Suffix

\* "Vector_index_f_g_h_i_j_k_Node": six id segments
NameF == Prefix \o <<"f","_","g","_","h","_","i","_","j","_","k">> \o Suffix

\* "Vector_index_a_b_Node": fewer than five id segments
NameShort == Prefix \o <<"a","_","b">> \o Suffix

\* "Vector_index_p_Node_q_r_s_t_Node": the suffix text occurs inside the id
NameInner == Prefix \o <<"p">> \o Suffix \o <<"_","q","_","r","_","s","_","t">> \o Suffix

\* "Docs": a collection that does not belong to Dify
NameOther == <<"D","o","c","s">>

Names == {NameA, NameF, NameShort, NameInner, NameOther}

\* "a-b-c-d-e"
KeyA == <<"a","-","b","-","c","-","d","-","e">>

\* "f-g-h-i-j"
KeyF == <<"f","-","g","-","h","-","i","-","j">>

\* ids the datasets table can hold
DatasetIds == {KeyA, KeyF}

\* what the operator can type at a prompt: "yes", "YES", "no", ""
Answers == {Yes, <<"Y","E","S">>, <<"n","o">>, <<>>}

\* properties of a stored collection; the first carries an auto-schema text
Props ==
    <<[name |-> "text", dataType |-> "text", description |-> "auto-schema"],
      [name |-> "doc_id", dataType |-> "uuid"]>>

\* properties of another stored collection: three of them, descriptions on
\* the last two, one with a further field
PropsF ==
    <<[name |-> "doc_id", dataType |-> "uuid"],
      [name |-> "text", dataType |-> "text", description |-> "auto-schema",
       indexFilterable |-> TRUE],
      [name |-> "page", dataType |-> "int", description |-> "page number"]>>

\* the properties the service holds for a collection
PropsOf(name) == IF name = NameF THEN PropsF ELSE Props

\* top-level vectorIndexConfig of an old-format collection
LegacyIndexConfig == [distance |-> "cosine"]

\* top-level vectorIndexConfig of an old-format collection set up with
\* another distance
LegacyIndexConfigF == [distance |-> "dot"]

\* the vectorIndexConfig the service holds for an old-format collection
LegacyIndexConfigOf(name) ==
    IF name = NameF THEN LegacyIndexConfigF ELSE LegacyIndexConfig

\* the vectorConfig block create_collection_new_format sends
DefaultVectorConfig ==
    [default |->
        [vectorIndexType   |-> "hnsw",
         vectorIndexConfig |-> [distance |-> "cosine", ef |-> -1,
                                efConstruction |-> 128, maxConnections |-> 32,
                                cleanupIntervalSeconds |-> 300,
                                flatSearchCutoff |-> 40000],
         vectorizer        |-> [none |-> {}]]]

Shapes == {"legacy", "current", "both", "neither"}

\* a schema document of the service, by the top-level keys it has
Doc(name, shape) ==
    CASE shape = "legacy"  -> [class |-> name, properties |-> PropsOf(name),
                               vectorIndexConfig |-> LegacyIndexConfigOf(name)]
      [] shape = "current" -> [class |-> name, properties |-> PropsOf(name),
                               vectorConfig |-> DefaultVectorConfig]
      [] shape = "both"    -> [class |-> name, properties |-> PropsOf(name),
                               vectorIndexConfig |-> LegacyIndexConfigOf(name),
                               vectorConfig |-> DefaultVectorConfig]
      [] OTHER             -> [class |-> name, properties |-> PropsOf(name)]

Docs == {Doc(n, sh) : n \in Names, sh \in Shapes}

\* schema listings: class names are unique in the service
Listings ==
    UNION {{l \in [1..n -> Docs] :
                \A j, k \in 1..n : j /= k => l[j].class /= l[k].class} :
           n \in 0..MaxCollections}

\* a placeholder for "no schema fetched"
NoSchema == [class |-> <<>>]

(* ------------------------------- state --------------------------------- *)

VARIABLES
    weaviate,              \* the service: the ordered list of schema documents
    cmd,                   \* sys.argv[1]
    collections,           \* what get_all_collections() returned to the command
    arg,                   \* sys.argv[2] of fix-one
    pc,                    \* position of the command
    old_format,            \* batch_fix: infos returned by scan_collections
    new_format,            \* scan_collections: second result
    orphaned_collections,  \* cleanup_orphaned: infos to delete
    db_reply,              \* the reply of the datasets query of this run
    db_ids,                \* cleanup_orphaned: get_all_dataset_ids_from_db()
    confirm,               \* the answer read by input()
    i,                     \* loop position (1-based) in the work list
    schema,                \* fix_single_collection: the fetched schema
    success_count,         \* batch_fix
    failed,                \* batch_fix
    results,               \* what each fix_single_collection call returned
    calls,                 \* the requests and prompts issued, in order
    sent,                  \* create_collection_new_format: the last new_schema posted
    reembed,               \* batch_fix: the infos printed under "Re-embed the following"
    other_pc,              \* another operator's fix-one run: its position
    other_name,            \* another operator's fix-one run: its collection
    other_schema           \* another operator's fix-one run: its fetched schema

vars == <<weaviate, cmd, collections, arg, pc, old_format, new_format, orphaned_collections,
          db_reply, db_ids, confirm, i, schema, success_count, failed,
          results, calls, sent, reembed, other_pc, other_name, other_schema>>

\* the state of the other operator's run
other_vars == <<other_pc, other_name, other_schema>>

(* --------------------------- the two services -------------------------- *)

\* HTTP statuses of the model; NoResponse stands for a request that raised
\* (timeout, connection error) instead of returning a response.
NoResponse == 0

\* is a class of that name stored in the service
Present(w, name) == \E k \in 1..Len(w) : w[k].class = name

\* the stored document of a class
Stored(w, name) == w[CHOOSE k \in 1..Len(w) : w[k].class = name]

\* the service after DELETE /v1/schema/{name}
Without(w, name) == SelectSeq(w, LAMBDA d : d.class /= name)

\* the replies GET /v1/schema/{name} can give
FetchStatuses(w, name) ==
    IF Present(w, name) THEN {200, 500, NoResponse} ELSE {404, NoResponse}

\* the replies DELETE /v1/schema/{name} can give
DeleteStatuses == {200, 204, 500, NoResponse}

\* the replies POST /v1/schema can give; the service refuses a class that exists
CreateStatuses(w, name) ==
    IF Present(w, name) THEN {422, NoResponse} ELSE {200, 422, NoResponse}

\* did the service carry out a modifying request: yes on a success status, no
\* on an error status, either when no response came back
Applied(status) ==
    IF status = NoResponse THEN BOOLEAN ELSE {status \in {200, 204}}

\* the replies of the datasets table: a failed connection, a failed query,
\* or the rows
DbReplies ==
    {[asked |-> TRUE, ok |-> FALSE, rows |-> {}]} \cup
    {[asked |-> TRUE, ok |-> TRUE, rows |-> r] : r \in SUBSET DatasetIds}

NoDbReply == [asked |-> FALSE, ok |-> FALSE, rows |-> {}]

\* get_all_dataset_ids_from_db: set() when the connection or the query fails
get_all_dataset_ids_from_db(reply) ==
    IF reply.ok THEN reply.rows ELSE {}

\* a variant of delete_collection that takes everything but a server error
\* for a success, a request that raised included
delete_collection_result_lenient(status) == status /= 500

\* delete_collection: resp.status_code in [200, 204], False when it raised
delete_collection_result(status) == status \in {200, 204}

\* a variant of create_collection_new_format that takes any response for a
\* success
create_collection_result_any_response(status) == status /= NoResponse

\* create_collection_new_format: resp.status_code == 200, False when it raised
create_collection_result(status) == status = 200

\* a variant of clean_prop that keeps the name and the data type only
clean_prop_whitelist(prop) ==
    [k \in (DOMAIN prop) \cap {"name", "dataType"} |-> prop[k]]

\* {k: v for k, v in prop.items() if k != "description"}
clean_prop(prop) == [k \in (DOMAIN prop) \ {"description"} |-> prop[k]]

\* old_schema.get("properties", [])
PropertiesOf(old_schema) ==
    IF "properties" \in DOMAIN old_schema THEN old_schema.properties ELSE <<>>

\* create_collection_new_format: the schema it posts
new_schema(class_name, old_schema) ==
    [class        |-> class_name,
     properties   |-> Map(PropertiesOf(old_schema), clean_prop),
     vectorConfig |-> DefaultVectorConfig]

\* a variant of the cancel test that takes the empty answer for the default
\* "yes"
Confirmed_empty_is_yes(answer) == Lower(answer) = Yes \/ answer = <<>>

\* a variant of the cancel test that cancels on "no" only
Confirmed_unless_no(answer) == Lower(answer) /= <<"n", "o">>

\* confirm.lower() != "yes" is the cancel test of both prompts
Confirmed(answer) == Lower(answer) = Yes

\* a variant of the skip test that uses the negation of is_old_format's
\* second half as well: new format only when the old key is gone
AlreadyNewFormat_strict(s) ==
    "vectorConfig" \in DOMAIN s /\ "vectorIndexConfig" \notin DOMAIN s

\* a variant of the fetch test that stops on a missing collection or a
\* request that raised, and goes on after any other status
fetch_failed_only_missing(status) == status \in {404, NoResponse}

\* fix_single_collection lines 317-325: resp.status_code != 200, or it raised
fetch_failed(status) == status /= 200

\* fix_single_collection: "vectorConfig" in schema
AlreadyNewFormat(s) == "vectorConfig" \in DOMAIN s

\* the dry_run argument main() passes to batch_fix
dry_run == cmd = "dry-run"

\* a variant of fix_single_collection that ignores its dry_run argument
fix_dry_run_ignored == FALSE

\* the dry_run argument of fix_single_collection: False from main() for
\* fix-one, its own dry_run from batch_fix
fix_dry_run == IF cmd = "fix-one" THEN FALSE ELSE dry_run

\* a variant of cleanup_orphaned without the empty-registry stop
NoDbIds_unchecked(ids) == FALSE

\* cleanup_orphaned line 442: `if not db_ids`
NoDbIds(ids) == ids = {}

(* ---------------------------- scan_collections ------------------------- *)

\* [c for c in collections if is_dify_collection(c)], as infos
DifyInfos(colls) ==
    Map(SelectSeq(colls, is_dify_collection), get_collection_info)

\* a variant of scan_collections that builds old_format by prepending
ScanOld_reversed(colls) ==
    LET old == SelectSeq(DifyInfos(colls), LAMBDA info : info.is_old_format)
    IN  [k \in 1..Len(old) |-> old[Len(old) + 1 - k]]

\* scan_collections: the old_format list
ScanOld(colls) == SelectSeq(DifyInfos(colls), LAMBDA info : info.is_old_format)

\* scan_collections: the new_format list
ScanNew(colls) == SelectSeq(DifyInfos(colls), LAMBDA info : ~info.is_old_format)

\* cleanup_orphaned: weaviate_ids
WeaviateIds(colls) == {info.dataset_id : info \in Range(DifyInfos(colls))}

\* cleanup_orphaned: orphaned_ids = weaviate_ids - db_ids
OrphanedIds(colls, ids) == WeaviateIds(colls) \ ids

\* cleanup_orphaned: infos whose dataset_id is in orphaned_ids
OrphanedCollections(colls, ids) ==
    SelectSeq(DifyInfos(colls),
              LAMBDA info : info.dataset_id \in OrphanedIds(colls, ids))

\* an entry of the trace of requests and prompts: the operation ("fetch",
\* "delete", "create" or "input"), the collection it names (for "input" the
\* answer typed), the HTTP status that came back, and the top-level keys of
\* a schema: for a fetch the one in the reply, for a delete the one the
\* service held when the request arrived
Call(op, name, status, keys) ==
    [op |-> op, name |-> name, status |-> status, keys |-> keys]

(* -------------------------------- Init --------------------------------- *)

Commands == {"scan", "dry-run", "fix", "fix-one", "cleanup"}

\* the state of a command that has not started, the service holding any listing
InitMain ==
    /\ weaviate \in Listings
    /\ cmd \in Commands
    /\ collections = <<>>
    /\ arg \in (IF cmd = "fix-one" THEN Names ELSE {<<>>})
    /\ pc = "start"
    /\ old_format = <<>>
    /\ new_format = <<>>
    /\ orphaned_collections = <<>>
    /\ db_reply = NoDbReply
    /\ db_ids = {}
    /\ confirm = <<>>
    /\ i = 0
    /\ schema = NoSchema
    /\ success_count = 0
    /\ failed = <<>>
    /\ results = <<>>
    /\ calls = <<>>
    /\ sent = NoSchema
    /\ reembed = <<>>

\* one command, no other operator at work
Init ==
    /\ InitMain
    /\ other_pc = "off"
    /\ other_name = <<>>
    /\ other_schema = NoSchema

\* a repair command while another operator runs fix-one on some collection
InitRace ==
    /\ InitMain
    /\ cmd \in {"dry-run", "fix", "fix-one"}
    /\ other_pc = "start"
    /\ other_name \in Names
    /\ other_schema = NoSchema

(* ------------------------------- actions ------------------------------- *)

\* what get_all_collections returns: the classes, or [] when the request fails
Listed(listed) == IF listed THEN weaviate ELSE <<>>

\* the collection fix_single_collection is working on
CurrentName == IF cmd = "fix-one" THEN arg ELSE old_format[i].name

\* batch_fix, lines 404-419: the infos listed for re-embedding when the loop
\* has ended: nothing in a dry run or without a success, otherwise
\* [info for info in old_format if info not in failed]
Successful(old, failed_infos, count) ==
    IF ~dry_run /\ count > 0
    THEN SelectSeq(old, LAMBDA info : info \notin Range(failed_infos))
    ELSE <<>>

\* a variant of the loop of batch_fix that ends the batch at the first
\* repair that returns False
Return_stop_at_failure(result, ended) ==
    /\ results' = Append(results, [name |-> CurrentName, ret |-> result,
                                    ended |-> ended])
    /\ IF cmd = "fix-one"
       THEN /\ pc' = "done"
            /\ UNCHANGED <<i, success_count, failed, reembed>>
       ELSE /\ success_count' = IF result THEN success_count + 1 ELSE success_count
            /\ failed' = IF result THEN failed ELSE Append(failed, old_format[i])
            /\ i' = i + 1
            /\ pc' = IF i + 1 > Len(old_format) \/ ~result THEN "done" ELSE "fetch"
            /\ reembed' = IF i + 1 > Len(old_format) \/ ~result
                          THEN Successful(old_format, failed', success_count')
                          ELSE reembed

\* fix_single_collection returns `result` to its caller: main() for fix-one,
\* the loop of batch_fix otherwise (lines 379-390), which counts it and moves
\* on, printing the summary (lines 392-419) after the last collection.
\* `ended` is the line the repair printed last: "fetch" (Failed / Error),
\* "skip" (Already new format), "dry" (Would delete and recreate), "delete"
\* (Delete failed), "create" (Create failed), "fixed" (fixed successfully).
Return(result, ended) ==
    /\ results' = Append(results, [name |-> CurrentName, ret |-> result,
                                    ended |-> ended])
    /\ IF cmd = "fix-one"
       THEN /\ pc' = "done"
            /\ UNCHANGED <<i, success_count, failed, reembed>>
       ELSE /\ success_count' = IF result THEN success_count + 1 ELSE success_count
            /\ failed' = IF result THEN failed ELSE Append(failed, old_format[i])
            /\ i' = i + 1
            /\ pc' = IF i + 1 > Len(old_format) THEN "done" ELSE "fetch"
            /\ reembed' = IF i + 1 > Len(old_format)
                          THEN Successful(old_format, failed', success_count')
                          ELSE reembed

\* the top-level keys of the document the service holds for a class
KeysOf(w, name) == IF Present(w, name) THEN DOMAIN Stored(w, name) ELSE {}

\* delete_collection(name): the request, its effect on the service, the trace
DeleteRequest(name, status, applied) ==
    /\ weaviate' = IF applied THEN Without(weaviate, name) ELSE weaviate
    /\ calls' = Append(calls, Call("delete", name, status, KeysOf(weaviate, name)))

\* the scan command: scan_collections()
ScanCmd ==
    /\ cmd = "scan" /\ pc = "start"
    /\ \E ready \in BOOLEAN, listed \in BOOLEAN :
          collections' = IF ready THEN Listed(listed) ELSE <<>>
    /\ old_format' = ScanOld(collections')
    /\ new_format' = ScanNew(collections')
    /\ pc' = "done"
    /\ UNCHANGED <<weaviate, cmd, arg, orphaned_collections, db_reply, db_ids,
                   confirm, i, schema, success_count, failed, results, calls>>
    /\ UNCHANGED <<sent, reembed, other_pc, other_name, other_schema>>

\* batch_fix up to the prompt (lines 358-370)
BatchScan ==
    /\ cmd \in {"dry-run", "fix"} /\ pc = "start"
    /\ \E ready \in BOOLEAN, listed \in BOOLEAN :
          collections' = IF ready THEN Listed(listed) ELSE <<>>
    /\ old_format' = ScanOld(collections')
    /\ new_format' = ScanNew(collections')
    /\ IF old_format' = <<>>
       THEN pc' = "done" /\ i' = i
       ELSE IF dry_run
            THEN pc' = "fetch" /\ i' = 1
            ELSE pc' = "confirm" /\ i' = i
    /\ UNCHANGED <<weaviate, cmd, arg, orphaned_collections, db_reply, db_ids,
                   confirm, schema, success_count, failed, results, calls>>
    /\ UNCHANGED <<sent, reembed, other_pc, other_name, other_schema>>

\* batch_fix: the prompt (lines 371-377)
BatchConfirm ==
    /\ cmd = "fix" /\ pc = "confirm"
    /\ \E answer \in Answers :
          /\ confirm' = answer
          /\ calls' = Append(calls, Call("input", answer, NoResponse, {}))
          /\ IF Confirmed(answer)
             THEN pc' = "fetch" /\ i' = 1
             ELSE pc' = "done" /\ i' = i
    /\ UNCHANGED <<weaviate, cmd, collections, arg, old_format, new_format,
                   orphaned_collections, db_reply, db_ids, schema,
                   success_count, failed, results>>
    /\ UNCHANGED <<sent, reembed, other_pc, other_name, other_schema>>

\* fix_single_collection, steps 1 and the checks (lines 315-334)
FixFetch ==
    /\ \/ pc = "fetch"
       \/ cmd = "fix-one" /\ pc = "start"
    /\ \E status \in FetchStatuses(weaviate, CurrentName) :
          /\ calls' = Append(calls,
                    Call("fetch", CurrentName, status,
                         IF status = 200
                         THEN DOMAIN Stored(weaviate, CurrentName) ELSE {}))
          /\ IF fetch_failed(status)
             THEN schema' = schema /\ Return(FALSE, "fetch")
             ELSE /\ schema' = Stored(weaviate, CurrentName)
                  /\ IF AlreadyNewFormat(schema')
                     THEN Return(TRUE, "skip")
                     ELSE IF fix_dry_run
                          THEN Return(TRUE, "dry")
                          ELSE /\ pc' = "delete"
                               /\ UNCHANGED <<i, success_count, failed, results, reembed>>
    /\ UNCHANGED <<weaviate, cmd, collections, arg, old_format, new_format,
                   orphaned_collections, db_reply, db_ids, confirm>>
    /\ UNCHANGED <<sent, other_pc, other_name, other_schema>>

\* fix_single_collection, step 2 (lines 336-341)
FixDelete ==
    /\ pc = "delete"
    /\ \E status \in DeleteStatuses :
       \E applied \in Applied(status) :
          /\ DeleteRequest(CurrentName, status, applied)
          /\ IF delete_collection_result(status)
             THEN /\ pc' = "create"
                  /\ UNCHANGED <<i, success_count, failed, results, reembed>>
             ELSE Return(FALSE, "delete")
    /\ UNCHANGED <<cmd, collections, arg, old_format, new_format,
                   orphaned_collections, db_reply, db_ids, confirm, schema>>
    /\ UNCHANGED <<sent, other_pc, other_name, other_schema>>

\* fix_single_collection, step 3 (lines 343-354)
FixCreate ==
    /\ pc = "create"
    /\ \E status \in CreateStatuses(weaviate, CurrentName) :
       \E applied \in Applied(status) :
          /\ weaviate' = IF applied /\ ~Present(weaviate, CurrentName)
                         THEN Append(weaviate, new_schema(CurrentName, schema))
                         ELSE weaviate
          /\ sent' = new_schema(CurrentName, schema)
          /\ calls' = Append(calls, Call("create", CurrentName, status, {}))
          /\ IF create_collection_result(status)
             THEN Return(TRUE, "fixed")
             ELSE Return(FALSE, "create")
    /\ UNCHANGED <<cmd, collections, arg, old_format, new_format,
                   orphaned_collections, db_reply, db_ids, confirm, schema>>
    /\ UNCHANGED <<other_pc, other_name, other_schema>>

\* cleanup_orphaned up to the prompt (lines 427-472)
CleanupScan ==
    /\ cmd = "cleanup" /\ pc = "start"
    /\ \E ready \in BOOLEAN, listed \in BOOLEAN, reply \in DbReplies :
          IF ~ready
          THEN /\ pc' = "done"
               /\ UNCHANGED <<collections, db_reply, db_ids, orphaned_collections>>
          ELSE /\ collections' = Listed(listed)
               /\ db_reply' = reply
               /\ db_ids' = get_all_dataset_ids_from_db(reply)
               /\ IF NoDbIds(db_ids') \/ OrphanedIds(collections', db_ids') = {}
                  THEN /\ pc' = "done"
                       /\ UNCHANGED orphaned_collections
                  ELSE /\ pc' = "confirm"
                       /\ orphaned_collections' =
                              OrphanedCollections(collections', db_ids')
    /\ UNCHANGED <<weaviate, cmd, arg, old_format, new_format, confirm, i,
                   schema, success_count, failed, results, calls>>
    /\ UNCHANGED <<sent, reembed, other_pc, other_name, other_schema>>

\* cleanup_orphaned: the prompt (lines 474-477)
CleanupConfirm ==
    /\ cmd = "cleanup" /\ pc = "confirm"
    /\ \E answer \in Answers :
          /\ confirm' = answer
          /\ calls' = Append(calls, Call("input", answer, NoResponse, {}))
          /\ IF Confirmed(answer)
             THEN pc' = "cleanup_delete" /\ i' = 1
             ELSE pc' = "done" /\ i' = i
    /\ UNCHANGED <<weaviate, cmd, collections, arg, old_format, new_format,
                   orphaned_collections, db_reply, db_ids, schema,
                   success_count, failed, results>>
    /\ UNCHANGED <<sent, reembed, other_pc, other_name, other_schema>>

\* cleanup_orphaned: one turn of the delete loop (lines 479-484)
CleanupDelete ==
    /\ pc = "cleanup_delete"
    /\ \E status \in DeleteStatuses :
       \E applied \in Applied(status) :
          DeleteRequest(orphaned_collections[i].name, status, applied)
    /\ i' = i + 1
    /\ pc' = IF i + 1 > Len(orphaned_collections) THEN "done" ELSE "cleanup_delete"
    /\ UNCHANGED <<cmd, collections, arg, old_format, new_format,
                   orphaned_collections, db_reply, db_ids, confirm, schema,
                   success_count, failed, results>>
    /\ UNCHANGED <<sent, reembed, other_pc, other_name, other_schema>>

Next ==
    \/ ScanCmd
    \/ BatchScan
    \/ BatchConfirm
    \/ FixFetch
    \/ FixDelete
    \/ FixCreate
    \/ CleanupScan
    \/ CleanupConfirm
    \/ CleanupDelete

Spec == Init /\ [][Next]_vars

\* the commands run to their end: the program is sequential and every step of
\* it returns (each request has a timeout)
FairSpec == Spec /\ WF_vars(Next)

(* ------------------- a second operator running fix-one ----------------- *)

\* the other run's fix_single_collection, step 1 and the checks (lines 315-334)
OtherFetch ==
    /\ other_pc = "start"
    /\ \E status \in FetchStatuses(weaviate, other_name) :
          IF fetch_failed(status)
          THEN other_pc' = "done" /\ other_schema' = other_schema
          ELSE /\ other_schema' = Stored(weaviate, other_name)
               /\ other_pc' = IF AlreadyNewFormat(other_schema')
                               THEN "done" ELSE "delete"
    /\ UNCHANGED <<weaviate, cmd, collections, arg, pc, old_format, new_format,
                   orphaned_collections, db_reply, db_ids, confirm, i, schema,
                   success_count, failed, results, calls, sent, reembed,
                   other_name>>

\* the other run's fix_single_collection, step 2 (lines 336-341)
OtherDelete ==
    /\ other_pc = "delete"
    /\ \E status \in DeleteStatuses :
       \E applied \in Applied(status) :
          /\ weaviate' = IF applied THEN Without(weaviate, other_name) ELSE weaviate
          /\ other_pc' = IF delete_collection_result(status) THEN "create" ELSE "done"
    /\ UNCHANGED <<cmd, collections, arg, pc, old_format, new_format,
                   orphaned_collections, db_reply, db_ids, confirm, i, schema,
                   success_count, failed, results, calls, sent, reembed,
                   other_name, other_schema>>

\* the other run's fix_single_collection, step 3 (lines 343-354)
OtherCreate ==
    /\ other_pc = "create"
    /\ \E status \in CreateStatuses(weaviate, other_name) :
       \E applied \in Applied(status) :
          weaviate' = IF applied /\ ~Present(weaviate, other_name)
                      THEN Append(weaviate, new_schema(other_name, other_schema))
                      ELSE weaviate
    /\ other_pc' = "done"
    /\ UNCHANGED <<cmd, collections, arg, pc, old_format, new_format,
                   orphaned_collections, db_reply, db_ids, confirm, i, schema,
                   success_count, failed, results, calls, sent, reembed,
                   other_name, other_schema>>

\* the steps of a repair command and of the other operator's run, interleaved
NextRace ==
    \/ BatchScan
    \/ BatchConfirm
    \/ FixFetch
    \/ FixDelete
    \/ FixCreate
    \/ OtherFetch
    \/ OtherDelete
    \/ OtherCreate

SpecRace == InitRace /\ [][NextRace]_vars

(* ======================= properties of the commands ==================== *)

\* positions in the trace
Calls == 1..Len(calls)

\* every spelling of "yes" that lower() maps to "yes"
AffirmativeAnswers ==
    {<<a, b, c>> : a \in {"y", "Y"}, b \in {"e", "E"}, c \in {"s", "S"}}

\* C1: in cleanup_orphaned a delete request is issued only after the answer
\* to the prompt was read in this run and was "yes" in some letter case; an
\* answer that is anything else is followed by no delete request at all.
C1_DeleteOnlyAfterYes ==
    cmd = "cleanup" =>
        /\ \A k \in Calls :
              calls[k].op = "delete" =>
                  \E j \in 1..(k - 1) :
                      calls[j].op = "input" /\ calls[j].name \in AffirmativeAnswers
        /\ \A j \in Calls :
              (calls[j].op = "input" /\ calls[j].name \notin AffirmativeAnswers)
                  => \A k \in Calls : calls[k].op /= "delete"

\* C1 witness: a cleanup run that deleted after the answer "YES"
C1_Witness ==
    /\ cmd = "cleanup"
    /\ \E j, k \in Calls :
          /\ j < k
          /\ calls[j].op = "input" /\ calls[j].name = <<"Y","E","S">>
          /\ calls[k].op = "delete"

\* C2 (as claimed): cleanup_orphaned never issues a delete for a collection
\* whose correlation key is "unknown".
C2_UnknownNeverDeleted ==
    cmd = "cleanup" =>
        \A k \in Calls :
            calls[k].op = "delete" => extract_dataset_id(calls[k].name) /= Unknown

\* C3: when the datasets query failed, cleanup_orphaned has no orphan in its
\* list, reads no confirmation, issues no delete and has ended.
C3_QueryFailedNoOrphans ==
    (cmd = "cleanup" /\ db_reply.asked /\ ~db_reply.ok) =>
        /\ orphaned_collections = <<>>
        /\ \A k \in Calls : calls[k].op \notin {"input", "delete"}
        /\ pc = "done"

\* C3 witness: the query failed in a run that listed a Dify collection with a
\* resolvable key
C3_Witness ==
    /\ cmd = "cleanup" /\ db_reply.asked /\ ~db_reply.ok
    /\ \E k \in 1..Len(collections) :
          /\ is_dify_collection(collections[k])
          /\ extract_dataset_id(collections[k].class) /= Unknown

\* C4 (as claimed): after a datasets query that succeeded, also with zero
\* rows, a listed Dify collection with a resolvable key is in the orphan list
\* exactly when its key is not among the returned ids.
C4_OrphanIffKeyAbsent ==
    (cmd = "cleanup" /\ db_reply.asked /\ db_reply.ok) =>
        \A info \in Range(DifyInfos(collections)) :
            info.dataset_id /= Unknown =>
                ((\E k \in 1..Len(orphaned_collections) :
                      orphaned_collections[k].name = info.name)
                 <=> info.dataset_id \notin db_reply.rows)

\* the statuses a delete request counts as done
DeleteDone == {200, 204}

\* the number of the repair (1 for the first fix_single_collection call of
\* the run) that issued the fetch at position k of the trace
RepairOf(k) == Cardinality({j \in 1..k : calls[j].op = "fetch"})

\* the fetch at position k returned a schema that has the vectorConfig key
FetchedNewFormat(k) ==
    calls[k].op = "fetch" /\ calls[k].status = 200 /\ "vectorConfig" \in calls[k].keys

\* C5, state part: a fetch that returned a schema with the vectorConfig key is
\* followed in its repair by no delete and no create, and the repair returned
\* True.
C5_SkipIssuesNothing ==
    \A k \in Calls :
        FetchedNewFormat(k) =>
            /\ k < Len(calls) => calls[k + 1].op = "fetch"
            /\ RepairOf(k) <= Len(results)
            /\ results[RepairOf(k)].ret = TRUE
            /\ results[RepairOf(k)].name = calls[k].name

\* C5: fix_single_collection on a schema that already has the vectorConfig
\* key reports success, issues neither a delete nor a create, and the step
\* leaves the service exactly as it was.
C5_SkipIsNoOp ==
    /\ []C5_SkipIssuesNothing
    /\ [][(/\ Len(calls') = Len(calls) + 1
            /\ calls'[Len(calls')].op = "fetch"
            /\ calls'[Len(calls')].status = 200
            /\ "vectorConfig" \in calls'[Len(calls')].keys)
             => weaviate' = weaviate]_vars

\* C5 witness: a repair that fetched a schema holding both the vectorConfig
\* and the vectorIndexConfig key, and has returned
C5_Witness ==
    /\ pc = "done"
    /\ \E k \in Calls :
          FetchedNewFormat(k) /\ "vectorIndexConfig" \in calls[k].keys

\* C6: in a repair the requests come in the order fetch, delete, create: a
\* delete directly follows a successful fetch of the same collection whose
\* schema lacks the vectorConfig key, a create directly follows a successful
\* delete of the same collection, and a failed delete is followed by no
\* request of that repair.
C6_FetchDeleteCreateOrder ==
    cmd \in {"fix", "fix-one", "dry-run"} =>
        \A k \in Calls :
            /\ calls[k].op = "delete" =>
                  /\ k > 1
                  /\ calls[k - 1].op = "fetch"
                  /\ calls[k - 1].name = calls[k].name
                  /\ calls[k - 1].status = 200
                  /\ "vectorConfig" \notin calls[k - 1].keys
            /\ calls[k].op = "create" =>
                  /\ k > 1
                  /\ calls[k - 1].op = "delete"
                  /\ calls[k - 1].name = calls[k].name
                  /\ calls[k - 1].status \in DeleteDone
            /\ (calls[k].op = "delete" /\ calls[k].status \notin DeleteDone
                    /\ k < Len(calls)) =>
                  /\ calls[k + 1].op = "fetch"
                  /\ calls[k + 1].name /= calls[k].name

\* C6 witness: a batch in which one repair stopped at a failed delete and
\* another one went on to its create
C6_Witness ==
    /\ cmd = "fix"
    /\ \E j, k \in Calls :
          /\ calls[j].op = "delete" /\ calls[j].status \notin DeleteDone
          /\ calls[k].op = "create"

\* C7, state part: a dry-run batch issues fetch requests only, one for each
\* flagged collection.
C7_DryRunFetchesOnly ==
    cmd = "dry-run" =>
        /\ \A k \in Calls : calls[k].op = "fetch"
        /\ pc = "done" => Len(calls) = Len(old_format)

\* C7: in a dry-run batch every repair stops after the fetch and the check:
\* no delete and no create is issued, and no step changes the service.
C7_DryRunChangesNothing ==
    /\ []C7_DryRunFetchesOnly
    /\ [][cmd = "dry-run" => weaviate' = weaviate]_vars

\* C7 witness: a finished dry-run that fetched an old-format schema
C7_Witness ==
    /\ cmd = "dry-run" /\ pc = "done"
    /\ \E k \in Calls :
          /\ calls[k].op = "fetch" /\ calls[k].status = 200
          /\ "vectorConfig" \notin calls[k].keys
          /\ "vectorIndexConfig" \in calls[k].keys

\* the reconciliation sets over the listed Dify collections, as the commands
\* compute them: old_format of the scan, the orphan list of the cleanup, and
\* the two sets the specification derives from them
NeedsRepair == Range(ScanOld(collections))

Orphaned == Range(orphaned_collections)

UnresolvableCorrelation ==
    {info \in Range(ScanNew(collections)) : info.dataset_id = Unknown}

Healthy ==
    {info \in Range(ScanNew(collections)) :
        /\ info.dataset_id /= Unknown
        /\ (~db_reply.ok \/ info.dataset_id \in db_reply.rows)}

\* the number of reconciliation sets an info is in
SetsHolding(info) ==
    (IF info \in NeedsRepair THEN 1 ELSE 0)
    + (IF info \in Orphaned THEN 1 ELSE 0)
    + (IF info \in Healthy THEN 1 ELSE 0)
    + (IF info \in UnresolvableCorrelation THEN 1 ELSE 0)

\* C8 (as claimed): once cleanup_orphaned has queried the registry, every
\* listed Dify collection is in exactly one of NeedsRepair, Orphaned, Healthy
\* and UnresolvableCorrelation.
C8_ReconciliationPartition ==
    (cmd = "cleanup" /\ db_reply.asked) =>
        \A info \in Range(DifyInfos(collections)) : SetsHolding(info) = 1

\* C9 (as claimed): the value a repair returns after a failed create differs
\* from the value a repair returns after a failed delete or a failed fetch.
C9_CreateErrorDistinct ==
    \A j, k \in 1..Len(results) :
        (results[j].ended = "create" /\ results[k].ended \in {"delete", "fetch"})
            => results[j].ret /= results[k].ret

\* the reference of the specification: the prefix taken once from the start
StripPrefix(s) ==
    IF StartsWith(s, Prefix) THEN SubSeq(s, Len(Prefix) + 1, Len(s)) ELSE s

\* the reference of the specification: the suffix taken once from the end
StripSuffix(s) ==
    IF EndsWith(s, Suffix) THEN SubSeq(s, 1, Len(s) - Len(Suffix)) ELSE s

\* the reference of the specification: first five segments joined by hyphens
ReferenceKey(name) ==
    LET parts == Split(StripSuffix(StripPrefix(name)), "_")
    IN  IF Len(parts) >= 5 THEN Join(SubSeq(parts, 1, 5), "-") ELSE Unknown

\* C10 (as claimed): the dataset_id of every info computed for a Dify
\* collection equals the reference key of its name.
C10_KeyMatchesReference ==
    \A info \in Range(old_format) \cup Range(new_format) \cup Range(orphaned_collections) :
        info.dataset_id = ReferenceKey(info.name)

\* the names of the infos of a list
NamesIn(infos) == {infos[k].name : k \in 1..Len(infos)}

\* the listed documents with a Dify name
ListedDify == {d \in Range(collections) : is_dify_collection(d)}

\* C11: a schema document with the vectorConfig key classifies as new format
\* whatever other keys it has, the vectorIndexConfig key included: the scan
\* puts it in new_format only, and a repair that fetched it skips; a document
\* with the vectorIndexConfig key and no vectorConfig key classifies as old
\* format: the scan puts it in old_format only, and a repair that fetched it
\* does not skip.
C11_ClassifiedByVectorConfigKey ==
    /\ (cmd \in {"scan", "dry-run", "fix"} /\ pc /= "start") =>
          \A d \in ListedDify :
              /\ "vectorConfig" \in DOMAIN d =>
                    d.class \in NamesIn(new_format) /\ d.class \notin NamesIn(old_format)
              /\ ("vectorIndexConfig" \in DOMAIN d /\ "vectorConfig" \notin DOMAIN d) =>
                    d.class \in NamesIn(old_format) /\ d.class \notin NamesIn(new_format)
    /\ \A k \in Calls :
          (calls[k].op = "fetch" /\ calls[k].status = 200
                /\ RepairOf(k) <= Len(results)) =>
              /\ "vectorConfig" \in calls[k].keys =>
                    results[RepairOf(k)].ended = "skip"
              /\ ("vectorIndexConfig" \in calls[k].keys
                    /\ "vectorConfig" \notin calls[k].keys) =>
                    results[RepairOf(k)].ended /= "skip"

\* C11 witness: a finished scan that listed a Dify collection holding both
\* keys and a Dify collection holding the old key only
C11_Witness ==
    /\ cmd = "scan" /\ pc = "done"
    /\ \E d \in ListedDify : {"vectorConfig", "vectorIndexConfig"} \subseteq DOMAIN d
    /\ \E d \in ListedDify :
          "vectorIndexConfig" \in DOMAIN d /\ "vectorConfig" \notin DOMAIN d

\* the two keys the schema format is read from
FormatKeys == {"vectorConfig", "vectorIndexConfig"}

\* C12 (as claimed): a Dify-named collection whose schema has neither the
\* vectorConfig nor the vectorIndexConfig key is in neither result list of a
\* scan, and a repair that fetched such a schema issues no delete and no
\* create for it.
C12_NeitherKeyExcluded ==
    /\ (cmd \in {"scan", "dry-run", "fix"} /\ pc /= "start") =>
          \A d \in ListedDify :
              (DOMAIN d \cap FormatKeys = {}) =>
                  d.class \notin (NamesIn(old_format) \cup NamesIn(new_format))
    /\ \A k \in Calls :
          (calls[k].op = "fetch" /\ calls[k].status = 200
                /\ calls[k].keys \cap FormatKeys = {} /\ k < Len(calls)) =>
              calls[k + 1].op \notin {"delete", "create"}

\* the vectorConfig block a rebuilt collection is to have
ExpectedVectorConfig ==
    [default |->
        [vectorIndexType   |-> "hnsw",
         vectorIndexConfig |-> [distance |-> "cosine", ef |-> -1,
                                efConstruction |-> 128, maxConnections |-> 32,
                                cleanupIntervalSeconds |-> 300,
                                flatSearchCutoff |-> 40000],
         vectorizer        |-> [none |-> {}]]]

\* p is the property q without its description and with every other field
SameButDescription(p, q) ==
    /\ DOMAIN p = (DOMAIN q) \ {"description"}
    /\ \A f \in DOMAIN p : p[f] = q[f]

\* C13: the schema a repair posts has the name of the collection it has just
\* deleted, the properties the service held for it, in their order, each
\* without its description and with every other field, and the fixed default
\* vectorConfig (hnsw, cosine, no vectorizer) whatever the old schema held.
C13_PostedSchema ==
    (calls /= <<>> /\ calls[Len(calls)].op = "create") =>
        LET name == calls[Len(calls)].name
            old  == PropsOf(name)
        IN  /\ Len(calls) > 1
            /\ calls[Len(calls) - 1].op = "delete"
            /\ calls[Len(calls) - 1].name = name
            /\ DOMAIN sent = {"class", "properties", "vectorConfig"}
            /\ sent.class = name
            /\ Len(sent.properties) = Len(old)
            /\ \A k \in 1..Len(old) : SameButDescription(sent.properties[k], old[k])
            /\ sent.vectorConfig = ExpectedVectorConfig

\* C13 witness: the create of the collection that has three properties, two
\* descriptions, a further field and the distance "dot" in its old schema
C13_Witness ==
    /\ calls /= <<>>
    /\ calls[Len(calls)].op = "create"
    /\ calls[Len(calls)].name = NameF
    /\ calls[Len(calls)].status = 200
    /\ "vectorIndexConfig" \in DOMAIN schema
    /\ schema.vectorIndexConfig = LegacyIndexConfigF

\* the collection is in the service with the schema the listing showed
Untouched(name) ==
    Present(weaviate, name) /\ Stored(weaviate, name) = Stored(collections, name)

\* the collection is in the service under its name in the new format
Rebuilt(name) ==
    /\ Present(weaviate, name)
    /\ "vectorConfig" \in DOMAIN Stored(weaviate, name)
    /\ "vectorIndexConfig" \notin DOMAIN Stored(weaviate, name)

\* a delete request for the collection is in the trace
DeleteIssued(name) ==
    \E k \in Calls : calls[k].op = "delete" /\ calls[k].name = name

\* the repair of the collection ended with "fixed successfully"
EndedFixed(name) ==
    \E k \in 1..Len(results) : results[k].name = name /\ results[k].ended = "fixed"

\* C14 (as claimed): at every point of a batch fix every flagged collection
\* is in the service, with its original schema or rebuilt in the new format.
C14_NeverDeletedNotRecreated ==
    cmd = "fix" =>
        \A name \in NamesIn(old_format) : Untouched(name) \/ Rebuilt(name)

\* C14 (amended): at every point of a batch fix, a flagged collection for
\* which no delete was issued is in the service with its original schema, and
\* a flagged collection whose repair ended as fixed is in the service under
\* its name in the new format; only a collection whose delete was issued and
\* whose create has not succeeded can be missing.
C14_UntouchedOrRebuiltOrInProgress ==
    cmd = "fix" =>
        \A name \in NamesIn(old_format) :
            /\ ~DeleteIssued(name) => Untouched(name)
            /\ EndedFixed(name) => Rebuilt(name)
            /\ ~Present(weaviate, name) => (DeleteIssued(name) /\ ~EndedFixed(name))

\* C14 witness: a batch stopped between the delete and the create of its
\* second collection: the first is rebuilt, the second is missing
C14_Witness ==
    /\ cmd = "fix" /\ pc = "create" /\ i = 2
    /\ results[1].ended = "fixed"
    /\ Rebuilt(old_format[1].name)
    /\ ~Present(weaviate, old_format[2].name)

\* the fetch at position k of the trace failed
FetchFailedAt(k) == calls[k].op = "fetch" /\ calls[k].status /= 200

\* C15, state part: a failed fetch is followed in its repair by no delete and
\* no create, and the repair returned False.
C15_FailedFetchIssuesNothing ==
    \A k \in Calls :
        FetchFailedAt(k) =>
            /\ k < Len(calls) => calls[k + 1].op = "fetch"
            /\ RepairOf(k) <= Len(results)
            /\ results[RepairOf(k)].ret = FALSE
            /\ results[RepairOf(k)].name = calls[k].name

\* C15: a repair whose fetch fails (no response, or a status other than 200)
\* ends as failed without a delete or a create, and the step leaves the
\* service unchanged.
C15_FailedFetchIsNoOp ==
    /\ []C15_FailedFetchIssuesNothing
    /\ [][(/\ Len(calls') = Len(calls) + 1
            /\ calls'[Len(calls')].op = "fetch"
            /\ calls'[Len(calls')].status /= 200)
             => weaviate' = weaviate]_vars

\* C15 witness: a finished repair whose fetch of an old-format collection
\* that is in the service came back with status 500
C15_Witness ==
    /\ pc = "done"
    /\ \E k \in Calls :
          /\ FetchFailedAt(k) /\ calls[k].status = 500
          /\ Present(weaviate, calls[k].name)
          /\ is_old_format(Stored(weaviate, calls[k].name))

\* the results that name the collection
ResultsFor(name) == {k \in 1..Len(results) : results[k].name = name}

\* batch_fix has reached its summary with every flagged collection attempted
\* and counted once, as a success or as a failure
BatchSummaryComplete ==
    /\ pc = "done"
    /\ success_count + Len(failed) = Len(old_format)
    /\ Len(results) = Len(old_format)
    /\ \A k \in 1..Len(old_format) :
          /\ results[k].name = old_format[k].name
          /\ results[k].ret <=> old_format[k] \notin Range(failed)
          /\ \E j \in Calls : calls[j].op = "fetch" /\ calls[j].name = old_format[k].name

\* the delete requests of the trace, in order
DeleteCalls == SelectSeq(calls, LAMBDA c : c.op = "delete")

\* cleanup_orphaned has ended with one delete request for every orphan, in
\* the order of the list
CleanupComplete ==
    /\ pc = "done"
    /\ Len(DeleteCalls) = Len(orphaned_collections)
    /\ \A k \in 1..Len(orphaned_collections) :
          DeleteCalls[k].name = orphaned_collections[k].name

\* C16: a confirmed batch fix reaches its summary with every flagged
\* collection attempted and counted once as success or failure, and a
\* confirmed cleanup attempts the delete of every orphan, whatever requests
\* fail on the way.
C16_EveryCollectionAttempted ==
    /\ (cmd = "fix" /\ pc = "fetch") ~> BatchSummaryComplete
    /\ (cmd = "cleanup" /\ pc = "cleanup_delete") ~> CleanupComplete

\* C16 witness: a batch fix at its summary whose first repair failed and whose
\* second repair was carried out
C16_Witness ==
    /\ cmd = "fix" /\ BatchSummaryComplete
    /\ Len(results) = 2
    /\ results[1].ret = FALSE
    /\ results[2].ended = "fixed"

\* the answers read at a prompt, in order
AnswersRead == SelectSeq(calls, LAMBDA c : c.op = "input")

\* C17: in a batch fix (not simulated) a delete or a create request is issued
\* only after the prompt was answered "yes" (in some letter case); after any
\* other answer the batch has ended with no collection processed, no request
\* issued and the service as the scan listed it.
C17_FixOnlyAfterYes ==
    cmd = "fix" =>
        /\ \A k \in Calls :
              calls[k].op \in {"delete", "create"} =>
                  \E j \in 1..(k - 1) :
                      calls[j].op = "input" /\ calls[j].name \in AffirmativeAnswers
        /\ \A j \in Calls :
              (calls[j].op = "input" /\ calls[j].name \notin AffirmativeAnswers) =>
                  /\ pc = "done"
                  /\ Len(calls) = 1
                  /\ results = <<>>
                  /\ success_count = 0 /\ failed = <<>>
                  /\ weaviate = collections

\* C17 witness: a batch fix with flagged collections that ended on the
\* answer "no"
C17_Witness ==
    /\ cmd = "fix" /\ pc = "done"
    /\ old_format /= <<>>
    /\ AnswersRead = <<Call("input", <<"n", "o">>, NoResponse, {})>>

\* the list a batch command works through
WorkList == IF cmd = "cleanup" THEN orphaned_collections ELSE old_format

\* the position of a collection in a list of infos or of documents, 0 when
\* it is not in it
PosInInfos(infos, name) ==
    IF \E k \in 1..Len(infos) : infos[k].name = name
    THEN CHOOSE k \in 1..Len(infos) : infos[k].name = name
    ELSE 0

PosInListing(name) ==
    IF \E k \in 1..Len(collections) : collections[k].class = name
    THEN CHOOSE k \in 1..Len(collections) : collections[k].class = name
    ELSE 0

\* the requests of the trace, prompts left out
Requests == SelectSeq(calls, LAMBDA c : c.op /= "input")

\* the number of requests of a kind for a collection
RequestCount(op, name) ==
    Cardinality({k \in 1..Len(Requests) :
                    Requests[k].op = op /\ Requests[k].name = name})

\* C18: in a batch run (dry-run, fix, cleanup) the work list is in the order
\* of the schema listing, the requests follow the work list without going
\* back to an earlier collection, and a collection gets at most one fetch,
\* one delete and one create.
C18_OneAtATimeInListingOrder ==
    cmd \in {"dry-run", "fix", "cleanup"} =>
        /\ \A j, k \in 1..Len(WorkList) :
              j < k => /\ PosInListing(WorkList[j].name) > 0
                       /\ PosInListing(WorkList[j].name) < PosInListing(WorkList[k].name)
        /\ \A j, k \in 1..Len(Requests) :
              j < k => /\ PosInInfos(WorkList, Requests[j].name) > 0
                       /\ PosInInfos(WorkList, Requests[j].name)
                              <= PosInInfos(WorkList, Requests[k].name)
        /\ \A name \in NamesIn(WorkList) :
              \A op \in {"fetch", "delete", "create"} : RequestCount(op, name) <= 1

\* C18 witness: a finished batch fix that deleted and recreated two
\* collections
C18_Witness ==
    /\ cmd = "fix" /\ pc = "done"
    /\ Len(old_format) = 2
    /\ \A k \in 1..2 :
          /\ RequestCount("delete", old_format[k].name) = 1
          /\ RequestCount("create", old_format[k].name) = 1

\* C19 (as claimed): while another run repairs collections, a repair run
\* never issues a delete request for a collection that is in the new format
\* at the time of the request.
C19_NeverDeletesCurrent ==
    cmd \in {"dry-run", "fix", "fix-one"} =>
        \A k \in Calls :
            calls[k].op = "delete" => "vectorConfig" \notin calls[k].keys

\* the collections the operator is told to re-embed
ReembedNames == NamesIn(reembed)

\* the collections whose repair in this run ended with a delete and a create
RepairedNames == {results[k].name : k \in {j \in 1..Len(results) : results[j].ended = "fixed"}}

\* C20 (as claimed): at the end of a confirmed batch fix the re-embed list
\* holds exactly the collections this run deleted and recreated.
C20_ReembedExactlyRepaired ==
    (cmd = "fix" /\ pc = "done" /\ Confirmed(confirm)) =>
        ReembedNames = RepairedNames

====
